---- MODULE Spec2Model ----
(***************************************************************************)
(* AppVitalLogShipper (src/services/log_shipper.js): a buffered log client *)
(* that batches entries and POSTs them to {apiUrl}/api/ingest_log when the *)
(* buffer reaches batchSize, when its interval timer expires, on an        *)
(* explicit flush() and on stop().                                         *)
(*                                                                         *)
(* The model follows the single-threaded event loop of the runtime: every  *)
(* action is one handler run to completion (a call of log/flush/stop, one  *)
(* expiry of the interval timer, or the settlement of one POST, which      *)
(* resumes the flush() that awaits it).                                    *)
(***************************************************************************)
EXTENDS Integers, Sequences, FiniteSets, TLC

(***************************************************************************)
(* Bounds of the model.                                                    *)
(***************************************************************************)
\* log() is called at most MaxLogs times in a behaviour of Spec,
MaxLogs == 3
\* and at most MaxEntryLogs times in a behaviour of SpecEntries.
MaxEntryLogs == 1
\* the batchSize options tried at construction are -1..MaxBatchSize.
MaxBatchSize == 3
\* log() is called at most MaxInstanceLogs times on each shipper in a
\* behaviour of SpecInstances.
MaxInstanceLogs == 1
\* the methods of a shipper are called at most MaxMethodLogs times in a
\* behaviour of SpecMethods.
MaxMethodLogs == 2
\* log() is called at most MaxLiveLogs times in a behaviour of SpecLive.
MaxLiveLogs == 2
\* the service logs at most MaxServiceLogs entries before it is signalled, in
\* a behaviour of SpecService.
MaxServiceLogs == 4

(***************************************************************************)
(* Program constants.                                                      *)
(***************************************************************************)
DefaultApiUrl == "http://localhost:8000"
DefaultServiceName == "unknown_service"
DefaultBatchSize == 10
DefaultFlushInterval == 5000
\* the path flush() posts to
IngestPath == "/api/ingest_log"

(***************************************************************************)
(* The options objects the constructor is called with.  An option that is  *)
(* not given is a key that is absent from the record; 0 is the falsy       *)
(* number.                                                                 *)
(***************************************************************************)
NoOptions == <<>>

OptionSets ==
    {NoOptions}
    \cup {[batchSize |-> 0, flushInterval |-> 0], [batchSize |-> -1]}
    \cup {[apiUrl |-> "http://appvital:8000", serviceName |-> "my_nodejs_service",
           batchSize |-> b, flushInterval |-> 3000] : b \in 1..MaxBatchSize}

\* every way of giving or not giving each of the four options: absent, falsy,
\* truthy
ApiUrlOptions == {NoOptions, [apiUrl |-> ""], [apiUrl |-> "http://appvital:8000"]}

ServiceNameOptions == {NoOptions, [serviceName |-> ""], [serviceName |-> "my_nodejs_service"]}

BatchSizeOptions == {NoOptions, [batchSize |-> 0], [batchSize |-> 2]}

FlushIntervalOptions == {NoOptions, [flushInterval |-> 0], [flushInterval |-> 3000]}

ConfigOptions ==
    {a @@ s @@ b @@ f : a \in ApiUrlOptions, s \in ServiceNameOptions,
                        b \in BatchSizeOptions, f \in FlushIntervalOptions}

\* the options of the integration guide, which names two more keys
GuideOptions ==
    [apiUrl |-> "http://localhost:8001", serviceName |-> "my-service",
     batchSize |-> 10, flushInterval |-> 5000,
     retryAttempts |-> 3, retryDelay |-> 1000]

\* options.key || dflt for a string option : "" and undefined are falsy
StringOr(options, key, dflt) ==
    IF key \in DOMAIN options /\ options[key] # "" THEN options[key] ELSE dflt

\* options.key ?? dflt : only undefined gives the default
NumberOr_nullish(options, key, dflt) ==
    IF key \in DOMAIN options THEN options[key] ELSE dflt

\* options.key || dflt for a numeric option : 0 and undefined are falsy
NumberOr(options, key, dflt) ==
    IF key \in DOMAIN options /\ options[key] # 0 THEN options[key] ELSE dflt

(***************************************************************************)
(* Strings that are converted are sequences of characters.                 *)
(***************************************************************************)
UpperOf ==
    [c \in {"a", "b", "d", "e", "f", "g", "i", "n", "o", "r", "u", "w"} |->
        CASE c = "a" -> "A" [] c = "b" -> "B" [] c = "d" -> "D" [] c = "e" -> "E"
          [] c = "f" -> "F" [] c = "g" -> "G" [] c = "i" -> "I" [] c = "n" -> "N"
          [] c = "o" -> "O" [] c = "r" -> "R" [] c = "u" -> "U" [] c = "w" -> "W"]

\* the level stored as given
toUpperCase_asGiven(s) == s

\* String.prototype.toUpperCase
toUpperCase(s) ==
    [i \in DOMAIN s |-> IF s[i] \in DOMAIN UpperOf THEN UpperOf[s[i]] ELSE s[i]]

\* new Date().toISOString() at clock reading ms
toISOString(ms) == <<"ISO8601", ms>>

(***************************************************************************)
(* The calls of log() made by the application: LogCalls where the batching *)
(* is studied, EntryCalls where the entry is.                              *)
(***************************************************************************)
NoMetadata == <<>>

LogCalls ==
    { [level |-> <<"e", "r", "r", "o", "r">>, message |-> "Database failed",
       metadata |-> [error |-> "timeout", userId |-> "42"]],
      [level |-> <<"i", "n", "f", "o">>, message |-> "Server shutting down gracefully",
       metadata |-> NoMetadata] }

EntryLevels ==
    { <<"e", "r", "r", "o", "r">>, <<"W", "a", "r", "n">>, <<"D", "E", "B", "U", "G">> }

EntryMessages == {"Database failed", "Server starting up"}

EntryMetadata ==
    { NoMetadata,
      [error |-> "timeout", userId |-> "42"],
      [port |-> 4003, service |-> "Ereadz1"],
      [level |-> <<"t", "r", "a", "c", "e">>, message |-> "overridden"],
      [timestamp |-> <<"yesterday", 0>>] }

\* the call made on each of the shippers of one process
InstanceCalls ==
    { [level |-> <<"i", "n", "f", "o">>, message |-> "Server starting up",
       metadata |-> [port |-> 4003, service |-> "Ereadz1"]] }

\* the arguments of the calls of info(), warn(), error() and debug()
MethodMessages == {"User logged in"}

MethodMetadata == {NoMetadata, [userId |-> "123", ip |-> "192.168.1.1"]}

\* the arguments of the calls of logServiceRequest()
RequestingServices == {"frontend"}

AdditionalData ==
    { [method |-> "GET", path |-> "/books"],
      [request_id |-> "from-additional-data", method |-> "GET"] }

\* the shipper of ereadz_service.js and the calls it makes while it serves
ServiceOptions ==
    [apiUrl |-> "http://localhost:8000", serviceName |-> "Ereadz1",
     batchSize |-> 5, flushInterval |-> 3000]

ServiceCalls ==
    { [method |-> "info", message |-> "Server starting up",
       metadata |-> [port |-> 4003, service |-> "Ereadz1"]],
      [method |-> "warn", message |-> "Simulated 400 error triggered",
       metadata |-> NoMetadata] }

EntryCalls ==
    [level : EntryLevels, message : EntryMessages, metadata : EntryMetadata]

\* how a POST settles: a 2xx response, another response, no response at all
Outcomes == {"2xx", "500", "ECONNREFUSED"}

VARIABLES
    apiUrl,          \* this.apiUrl
    serviceName,     \* this.serviceName
    batchSize,       \* this.batchSize
    flushInterval,   \* this.flushInterval
    logBuffer,       \* this.logBuffer
    flushTimer,      \* this.flushTimer : "null" or the handle setInterval returned
    isRunning,       \* this.isRunning
    timerActive,     \* the runtime: the interval behind the handle is scheduled
    timerPeriod,     \* the runtime: the period setInterval was given
    now,             \* the runtime: the reading of the clock; durations are not
                     \* modelled, the clock moves on by one reading per entry
    posts,           \* the network: every request axios.post has issued, in issue order
    consoleErrors,   \* the number of lines flush() wrote with console.error
    unhandled,       \* the number of flush() promises that were rejected
    logged,          \* history: every call of log(), in call order: its arguments,
                     \* the clock reading, the entry it built, the number of
                     \* requests issued before it, and the method the application
                     \* called to make it, with the arguments of that method
    streak,          \* history: the entries of the calls of log() made since the
                     \* buffer was empty, while no flush intervened
    streakBase,      \* history: the number of requests issued when the streak began
    stale,           \* history: how many entries at the head of the buffer were
                     \* logged before the latest failure of a request
    given,           \* history: the options the constructor was called with
    last,            \* history: the handler that ran last, whether the shipper
                     \* was stopped when it began, the calls of flush()
                     \* it made and the requests it issued
    exited,          \* the runtime: process.exit() was called, no handler runs
                     \* any more and no request in flight is completed
    others           \* the other shippers constructed in the process, each with
                     \* its fields, its interval, its requests and, as history,
                     \* the entries logged on it

config == <<apiUrl, serviceName, batchSize, flushInterval>>
shipper == <<logBuffer, flushTimer, isRunning>>
runtime == <<timerActive, timerPeriod, now>>
process == <<exited>>
history == <<logged, streak, streakBase, stale, given, last>>
vars == <<config, shipper, runtime, process, posts, consoleErrors, unhandled, history, others>>

(***************************************************************************)
(* The constructor.                                                        *)
(***************************************************************************)
\* a startFlushTimer() that always takes the default period
startFlushTimer_defaultPeriod(period) ==
    [flushTimer |-> "interval", timerActive |-> TRUE, timerPeriod |-> DefaultFlushInterval]

\* a startFlushTimer() that schedules nothing
startFlushTimer_unarmed(period) ==
    [flushTimer |-> "null", timerActive |-> FALSE, timerPeriod |-> period]

\* startFlushTimer(): setInterval hands out a handle and schedules the
\* callback every period milliseconds
startFlushTimer(period) ==
    [flushTimer |-> "interval", timerActive |-> TRUE, timerPeriod |-> period]

\* the fields of new AppVitalLogShipper(options) before it starts the timer
constructor(options) ==
    [apiUrl |-> StringOr(options, "apiUrl", DefaultApiUrl),
     serviceName |-> StringOr(options, "serviceName", DefaultServiceName),
     batchSize |-> NumberOr(options, "batchSize", DefaultBatchSize),
     flushInterval |-> NumberOr(options, "flushInterval", DefaultFlushInterval),
     logBuffer |-> <<>>,
     flushTimer |-> "null",
     isRunning |-> TRUE]

InitOver(optionSets) ==
    /\ \E options \in optionSets :
         LET this == constructor(options)
             timer == startFlushTimer(this.flushInterval)
         IN /\ given = options
            /\ apiUrl = this.apiUrl
            /\ serviceName = this.serviceName
            /\ batchSize = this.batchSize
            /\ flushInterval = this.flushInterval
            /\ logBuffer = this.logBuffer
            /\ isRunning = this.isRunning
            /\ flushTimer = timer.flushTimer
            /\ timerActive = timer.timerActive
            /\ timerPeriod = timer.timerPeriod
    /\ now = 0
    /\ exited = FALSE
    /\ posts = <<>>
    /\ consoleErrors = 0
    /\ unhandled = 0
    /\ logged = <<>>
    /\ streak = <<>>
    /\ streakBase = 0
    /\ stale = 0
    /\ last = [op |-> "constructor", flushCalls |-> 0, issued |-> 0, stopped |-> FALSE]

\* one shipper in the process
Init == InitOver(OptionSets) /\ others = <<>>

\* the shipper of the integration guide
InitGuide == InitOver({GuideOptions}) /\ others = <<>>

\* another new AppVitalLogShipper(options), with its own interval
NewShipper(options) ==
    LET this == constructor(options)
        timer == startFlushTimer(this.flushInterval)
    IN [apiUrl |-> this.apiUrl,
        serviceName |-> this.serviceName,
        batchSize |-> this.batchSize,
        flushInterval |-> this.flushInterval,
        logBuffer |-> this.logBuffer,
        isRunning |-> this.isRunning,
        flushTimer |-> timer.flushTimer,
        timerActive |-> timer.timerActive,
        timerPeriod |-> timer.timerPeriod,
        posts |-> <<>>,
        logged |-> <<>>]

\* the options the two shippers of one process are constructed with
InstanceOptions ==
    {[apiUrl |-> "http://appvital:8000", serviceName |-> "my_nodejs_service",
      batchSize |-> b, flushInterval |-> 3000] : b \in 1..2}

\* two shippers in the process
InitInstances ==
    /\ InitOver(InstanceOptions)
    /\ \E options \in InstanceOptions \cup {GuideOptions} : others = <<NewShipper(options)>>

(***************************************************************************)
(* log(level, message, metadata)                                           *)
(***************************************************************************)
\* { ...metadata, timestamp, level, service, message } : the generated
\* fields are written last
logEntry_spreadFirst(this, level, message, metadata) ==
    [timestamp |-> toISOString(now),
     level |-> toUpperCase(level),
     service |-> this.serviceName,
     message |-> message] @@ metadata

\* { timestamp, level, service, message, ...metadata } : the keys of metadata
\* are spread last and take precedence
logEntry(this, level, message, metadata) ==
    metadata @@ [timestamp |-> toISOString(now),
                 level |-> toUpperCase(level),
                 service |-> this.serviceName,
                 message |-> message]

\* an unshift in place of the push
push_front(buffer, entry) == <<entry>> \o buffer

\* this.logBuffer.push(logEntry)
push(buffer, entry) == Append(buffer, entry)

\* the threshold test with > for >=
ShouldFlush_strict(this) == Len(this.logBuffer) > this.batchSize

\* this.logBuffer.length >= this.batchSize
ShouldFlush(this) == Len(this.logBuffer) >= this.batchSize

(***************************************************************************)
(* flush().  An async function runs to its first await inside the handler  *)
(* that calls it: the emptiness check, the snapshot, the reset of the      *)
(* buffer and the call of axios.post happen at once.  st holds the buffer, *)
(* the requests issued so far and the number of calls of flush() made by   *)
(* the running handler.  The promise axios.post returns is pending until   *)
(* the request settles.                                                    *)
(***************************************************************************)
\* a request to the endpoint for single entries
Request_singleLog(this, logsToSend) ==
    [url |-> this.apiUrl \o "/api/ingest_single_log",
     body |-> [logs |-> logsToSend],
     promise |-> "pending",
     stale |-> this.stale]

Request(this, logsToSend) ==
    [url |-> this.apiUrl \o IngestPath,
     body |-> [logs |-> logsToSend],
     promise |-> "pending",
     stale |-> this.stale]

\* a flush() without the check for an empty buffer
flush_noEmptyCheck(st) ==
    LET logsToSend == st.logBuffer
    IN [st EXCEPT !.logBuffer = <<>>,
                  !.posts = Append(@, Request(st, logsToSend)),
                  !.flushCalls = @ + 1]

\* a flush() that sends nothing while an earlier request is in flight
flush_serialized(st) ==
    IF Len(st.logBuffer) = 0 \/ \E i \in DOMAIN st.posts : st.posts[i].promise = "pending"
    THEN [st EXCEPT !.flushCalls = @ + 1]
    ELSE LET logsToSend == st.logBuffer
         IN [st EXCEPT !.logBuffer = <<>>,
                       !.posts = Append(@, Request(st, logsToSend)),
                       !.flushCalls = @ + 1]

\* flush() without the reset of the live buffer
flush_keepsBuffer(st) ==
    IF Len(st.logBuffer) = 0
    THEN [st EXCEPT !.flushCalls = @ + 1]
    ELSE LET logsToSend == st.logBuffer
         IN [st EXCEPT !.posts = Append(@, Request(st, logsToSend)),
                       !.flushCalls = @ + 1]

\* a flush() that resets the live buffer before it takes the snapshot
flush_resetFirst(st) ==
    IF Len(st.logBuffer) = 0
    THEN [st EXCEPT !.flushCalls = @ + 1]
    ELSE LET logsToSend == <<>>
         IN [st EXCEPT !.logBuffer = <<>>,
                       !.posts = Append(@, Request(st, logsToSend)),
                       !.flushCalls = @ + 1]

flush(st) ==
    IF Len(st.logBuffer) = 0
    THEN [st EXCEPT !.flushCalls = @ + 1]
    ELSE LET logsToSend == st.logBuffer
         IN [st EXCEPT !.logBuffer = <<>>,
                       !.posts = Append(@, Request(st, logsToSend)),
                       !.flushCalls = @ + 1]

\* axios rejects the promise of a request that got no 2xx response
Rejects(outcome) == outcome # "2xx"

\* a catch block that throws the error on: the promise of flush() is rejected
catchBlock_rethrows(st, logsToSend) ==
    [logBuffer |-> st.logBuffer,
     consoleErrors |-> st.consoleErrors + 1,
     unhandled |-> st.unhandled + 1]

\* a catch block that puts the snapshot back at the head of the buffer
catchBlock_requeue(st, logsToSend) ==
    [logBuffer |-> logsToSend \o st.logBuffer,
     consoleErrors |-> st.consoleErrors + 1,
     unhandled |-> st.unhandled]

\* the catch block of flush(): one line on console.error, the snapshot is
\* dropped and the promise of flush() is fulfilled
catchBlock(st, logsToSend) ==
    [logBuffer |-> st.logBuffer,
     consoleErrors |-> st.consoleErrors + 1,
     unhandled |-> st.unhandled]

\* flush() from its await on, when the request settles with outcome
resume(st, logsToSend, outcome) ==
    IF Rejects(outcome) THEN catchBlock(st, logsToSend) ELSE st

(***************************************************************************)
(* The handlers.  Each works on a copy of the state it can change and the  *)
(* action commits the result.                                              *)
(***************************************************************************)
Handler ==
    [apiUrl |-> apiUrl,
     serviceName |-> serviceName,
     batchSize |-> batchSize,
     logBuffer |-> logBuffer,
     flushTimer |-> flushTimer,
     isRunning |-> isRunning,
     timerActive |-> timerActive,
     posts |-> posts,
     stale |-> stale,
     flushCalls |-> 0]

Commit(st, op) ==
    /\ logBuffer' = st.logBuffer
    /\ isRunning' = st.isRunning
    /\ timerActive' = st.timerActive
    /\ posts' = st.posts
    /\ stale' = IF Len(st.posts) > Len(posts) THEN 0 ELSE stale
    /\ last' = [op |-> op, flushCalls |-> st.flushCalls,
                issued |-> Len(st.posts) - Len(posts), stopped |-> ~isRunning]

\* the number of entry objects built so far in the process
RECURSIVE LoggedOn(_)
LoggedOn(n) == IF n = 0 THEN 0 ELSE LoggedOn(n - 1) + Len(others[n].logged)

Allocated == Len(logged) + LoggedOn(Len(others))

\* the object log() builds: a new reference and the fields of the entry
NewEntry(level, message, metadata) ==
    [ref |-> Allocated + 1, obj |-> logEntry(Handler, level, message, metadata)]

\* a log() that drops the entry once the shipper is stopped
log_ignoredWhenStopped(st, entry) ==
    IF ~st.isRunning
    THEN st
    ELSE LET pushed == [st EXCEPT !.logBuffer = push(@, entry)]
         IN IF ShouldFlush(pushed) THEN flush(pushed) ELSE pushed

\* a log() that holds its flush back while a request is in flight
log_backpressure(st, entry) ==
    LET pushed == [st EXCEPT !.logBuffer = push(@, entry)]
    IN IF /\ ShouldFlush(pushed)
          /\ \A i \in DOMAIN st.posts : st.posts[i].promise # "pending"
       THEN flush(pushed)
       ELSE pushed

\* log() without the size check
log_noFlush(st, entry) == [st EXCEPT !.logBuffer = push(@, entry)]

log(st, entry) ==
    LET pushed == [st EXCEPT !.logBuffer = push(@, entry)]
    IN IF ShouldFlush(pushed) THEN flush(pushed) ELSE pushed

\* a clearInterval that leaves the interval scheduled
clearInterval_noop(active) == active

\* clearInterval(handle) : the interval is no longer scheduled
clearInterval(active) == FALSE

\* a stop() that aborts the requests in flight before its final flush
stop_abortsInFlight(st) ==
    LET halted == [st EXCEPT !.isRunning = FALSE]
        cleared == IF st.flushTimer # "null"
                   THEN [halted EXCEPT !.timerActive = clearInterval(@)]
                   ELSE halted
        aborted == [cleared EXCEPT !.posts =
                       [i \in DOMAIN @ |->
                           IF @[i].promise = "pending"
                           THEN [@[i] EXCEPT !.promise = "rejected"]
                           ELSE @[i]]]
    IN flush(aborted)

\* a stop() that leaves the interval scheduled
stop_keepsTimer(st) ==
    LET halted == [st EXCEPT !.isRunning = FALSE]
    IN flush(halted)

\* a stop() that leaves the flag as it is
stop_keepsFlag(st) ==
    LET cleared == IF st.flushTimer # "null"
                   THEN [st EXCEPT !.timerActive = clearInterval(@)]
                   ELSE st
    IN flush(cleared)

\* a stop() that flips the flag
stop_toggles(st) ==
    LET halted == [st EXCEPT !.isRunning = ~@]
        cleared == IF st.flushTimer # "null"
                   THEN [halted EXCEPT !.timerActive = clearInterval(@)]
                   ELSE halted
    IN flush(cleared)

stop(st) ==
    LET halted == [st EXCEPT !.isRunning = FALSE]
        cleared == IF st.flushTimer # "null"
                   THEN [halted EXCEPT !.timerActive = clearInterval(@)]
                   ELSE halted
    IN flush(cleared)

\* a callback that flushes a full buffer only
timerCallback_whenFull(st) == IF ShouldFlush(st) THEN flush(st) ELSE st

\* the callback startFlushTimer() gives to setInterval
timerCallback(st) == flush(st)

\* the promise of a request that settles with outcome
Settled(outcome) == IF Rejects(outcome) THEN "rejected" ELSE "fulfilled"

\* the application calls method with args, which calls log(level, message,
\* metadata)
LogVia(method, args, level, message, metadata) ==
    /\ LET entry == NewEntry(level, message, metadata)
       IN /\ Commit(log(Handler, entry), "log")
          /\ logged' = Append(logged,
                               [call |-> [level |-> level, message |-> message,
                                          metadata |-> metadata],
                                at |-> now,
                                entry |-> entry,
                                issued |-> Len(posts),
                                via |-> method,
                                args |-> args])
          /\ IF logBuffer = <<>>
             THEN streak' = <<entry>> /\ streakBase' = Len(posts)
             ELSE IF streak # <<>>
                  THEN streak' = Append(streak, entry) /\ streakBase' = streakBase
                  ELSE UNCHANGED <<streak, streakBase>>
    /\ now' = now + 1
    /\ ~exited
    /\ UNCHANGED <<config, given, exited, flushTimer, timerPeriod, consoleErrors, unhandled, others>>

Log(level, message, metadata) ==
    LogVia("log", <<level, message, metadata>>, level, message, metadata)

\* info(message, metadata) : the call of log() it makes
info(message, metadata) ==
    [level |-> <<"i", "n", "f", "o">>, message |-> message, metadata |-> metadata]

\* warn(message, metadata)
warn(message, metadata) ==
    [level |-> <<"w", "a", "r", "n">>, message |-> message, metadata |-> metadata]

\* an error() that logs at the level of info()
error_asInfo(message, metadata) ==
    [level |-> <<"i", "n", "f", "o">>, message |-> message, metadata |-> metadata]

\* error(message, metadata)
error(message, metadata) ==
    [level |-> <<"e", "r", "r", "o", "r">>, message |-> message, metadata |-> metadata]

\* debug(message, metadata)
debug(message, metadata) ==
    [level |-> <<"d", "e", "b", "u", "g">>, message |-> message, metadata |-> metadata]

\* a logServiceRequest() that spreads additionalData before the three fields
logServiceRequest_argumentsLast(requestingService, targetService, requestId, additionalData) ==
    info("Service request received",
         [requesting_service |-> requestingService,
          target_service |-> targetService,
          request_id |-> requestId] @@ additionalData)

\* logServiceRequest(requestingService, targetService, requestId,
\* additionalData) : the call of info() it makes; additionalData is spread
\* last and takes precedence
logServiceRequest(requestingService, targetService, requestId, additionalData) ==
    info("Service request received",
         additionalData @@ [requesting_service |-> requestingService,
                            target_service |-> targetService,
                            request_id |-> requestId])

Info(message, metadata) ==
    LET c == info(message, metadata)
    IN LogVia("info", <<message, metadata>>, c.level, c.message, c.metadata)

Warn(message, metadata) ==
    LET c == warn(message, metadata)
    IN LogVia("warn", <<message, metadata>>, c.level, c.message, c.metadata)

Error(message, metadata) ==
    LET c == error(message, metadata)
    IN LogVia("error", <<message, metadata>>, c.level, c.message, c.metadata)

Debug(message, metadata) ==
    LET c == debug(message, metadata)
    IN LogVia("debug", <<message, metadata>>, c.level, c.message, c.metadata)

LogServiceRequest(requestingService, targetService, requestId, additionalData) ==
    LET c == logServiceRequest(requestingService, targetService, requestId, additionalData)
    IN LogVia("logServiceRequest",
              <<requestingService, targetService, requestId, additionalData>>,
              c.level, c.message, c.metadata)

\* a handler that exits without stopping the shipper
onSignal_exitOnly(st, entry) == log(st, entry)

\* the handlers of SIGINT and SIGTERM up to process.exit(0): logger.info(...)
\* and logger.stop()
onSignal(st, entry) == stop(log(st, entry))

\* process.on(signal, ...) of ereadz_service.js: the handler logs message,
\* stops the shipper and ends the process
Shutdown(message) ==
    /\ ~exited
    /\ LET c == info(message, NoMetadata)
           entry == NewEntry(c.level, c.message, c.metadata)
       IN /\ Commit(onSignal(Handler, entry), "signal")
          /\ logged' = Append(logged,
                               [call |-> c,
                                at |-> now,
                                entry |-> entry,
                                issued |-> Len(posts),
                                via |-> "info",
                                args |-> <<message, NoMetadata>>])
    /\ streak' = <<>>
    /\ streakBase' = 0
    /\ now' = now + 1
    /\ exited' = TRUE
    /\ UNCHANGED <<config, given, flushTimer, timerPeriod, consoleErrors, unhandled, others>>

Sigint == Shutdown("Server shutting down gracefully")

Sigterm == Shutdown("Server received SIGTERM, shutting down")

FlushCall ==
    /\ Commit(flush(Handler), "flush")
    /\ streak' = <<>>
    /\ streakBase' = 0
    /\ ~exited
    /\ UNCHANGED <<config, given, exited, flushTimer, timerPeriod, now, consoleErrors, unhandled, logged, others>>

TimerCallback ==
    /\ timerActive
    /\ Commit(timerCallback(Handler), "timer")
    /\ streak' = <<>>
    /\ streakBase' = 0
    /\ ~exited
    /\ UNCHANGED <<config, given, exited, flushTimer, timerPeriod, now, consoleErrors, unhandled, logged, others>>

Stop ==
    /\ Commit(stop(Handler), "stop")
    /\ streak' = <<>>
    /\ streakBase' = 0
    /\ ~exited
    /\ UNCHANGED <<config, given, exited, flushTimer, timerPeriod, now, consoleErrors, unhandled, logged, others>>

PostSettle(i, outcome) ==
    /\ posts[i].promise = "pending"
    /\ LET st == resume([logBuffer |-> logBuffer,
                         consoleErrors |-> consoleErrors,
                         unhandled |-> unhandled],
                        posts[i].body.logs, outcome)
       IN /\ logBuffer' = st.logBuffer
          /\ consoleErrors' = st.consoleErrors
          /\ unhandled' = st.unhandled
    /\ posts' = [posts EXCEPT ![i].promise = Settled(outcome)]
    /\ stale' = IF Rejects(outcome) THEN Len(logBuffer) ELSE stale
    /\ last' = [op |-> "settle", flushCalls |-> 0, issued |-> 0, stopped |-> ~isRunning]
    /\ ~exited
    /\ UNCHANGED <<config, given, exited, flushTimer, isRunning, runtime, logged, streak, streakBase, others>>

NextOver(calls, maxLogs) ==
    \/ \E c \in calls :
         /\ Len(logged) < maxLogs
         /\ Log(c.level, c.message, c.metadata)
    \/ FlushCall
    \/ TimerCallback
    \/ Stop
    \/ \E i \in DOMAIN posts : \E outcome \in Outcomes : PostSettle(i, outcome)

Next == NextOver(LogCalls, MaxLogs)

Spec == Init /\ [][Next]_vars

NextEntries == NextOver(EntryCalls, MaxEntryLogs)

SpecEntries == Init /\ [][NextEntries]_vars

SpecGuide == InitGuide /\ [][Next]_vars

\* ereadz_service.js: the service logs while it serves, never calls flush()
\* or stop() itself, and is ended by a signal
InitService == InitOver({ServiceOptions}) /\ others = <<>>

NextService ==
    \/ \E c \in ServiceCalls :
          /\ Len(logged) < MaxServiceLogs
          /\ c.method = "info"
          /\ Info(c.message, c.metadata)
    \/ \E c \in ServiceCalls :
          /\ Len(logged) < MaxServiceLogs
          /\ c.method = "warn"
          /\ Warn(c.message, c.metadata)
    \/ TimerCallback
    \/ \E i \in DOMAIN posts : \E outcome \in Outcomes : PostSettle(i, outcome)
    \/ Sigint
    \/ Sigterm

SpecService == InitService /\ [][NextService]_vars

\* setInterval runs the callback again and again until clearInterval: the
\* event loop does not leave a scheduled interval waiting for ever
NextLive == NextOver(LogCalls, MaxLiveLogs)

SpecLive == Init /\ [][NextLive]_vars /\ WF_vars(TimerCallback)

\* a shipper constructed with any of the option records, then used
InitConfig == InitOver(ConfigOptions) /\ others = <<>>

SpecConfig == InitConfig /\ [][NextLive]_vars

\* the application logs through the convenience methods and
\* logServiceRequest() only
NextMethods ==
    \/ TimerCallback
    \/ Stop
    \/ \E i \in DOMAIN posts : \E outcome \in Outcomes : PostSettle(i, outcome)
    \/ \E m \in MethodMessages : \E md \in MethodMetadata :
          /\ Len(logged) < MaxMethodLogs
          /\ Info(m, md)
    \/ \E m \in MethodMessages : \E md \in MethodMetadata :
          /\ Len(logged) < MaxMethodLogs
          /\ Warn(m, md)
    \/ \E m \in MethodMessages : \E md \in MethodMetadata :
          /\ Len(logged) < MaxMethodLogs
          /\ Error(m, md)
    \/ \E m \in MethodMessages : \E md \in MethodMetadata :
          /\ Len(logged) < MaxMethodLogs
          /\ Debug(m, md)
    \/ \E rs \in RequestingServices : \E ad \in AdditionalData :
          /\ Len(logged) < MaxMethodLogs
          /\ LogServiceRequest(rs, "Ereadz1", "req-1", ad)

\* the example shipper of log_shipper.js with the size trigger in reach, and
\* a shipper with the defaults
MethodOptions ==
    {NoOptions,
     [apiUrl |-> "http://localhost:8000", serviceName |-> "my_nodejs_service",
      batchSize |-> 2, flushInterval |-> 3000]}

InitMethods == InitOver(MethodOptions) /\ others = <<>>

SpecMethods == InitMethods /\ [][NextMethods]_vars

(***************************************************************************)
(* The handlers of another shipper of the process: the same methods, bound *)
(* to its fields.                                                          *)
(***************************************************************************)
\* a shipper whose buffer is the array of the first shipper
OtherHandler_sharedBuffer(i) ==
    [apiUrl |-> others[i].apiUrl,
     serviceName |-> others[i].serviceName,
     batchSize |-> others[i].batchSize,
     logBuffer |-> logBuffer,
     flushTimer |-> others[i].flushTimer,
     isRunning |-> others[i].isRunning,
     timerActive |-> others[i].timerActive,
     posts |-> others[i].posts,
     stale |-> 0,
     flushCalls |-> 0]

OtherHandler(i) ==
    [apiUrl |-> others[i].apiUrl,
     serviceName |-> others[i].serviceName,
     batchSize |-> others[i].batchSize,
     logBuffer |-> others[i].logBuffer,
     flushTimer |-> others[i].flushTimer,
     isRunning |-> others[i].isRunning,
     timerActive |-> others[i].timerActive,
     posts |-> others[i].posts,
     stale |-> 0,
     flushCalls |-> 0]

OtherCommit(i, st, entries) ==
    /\ others' = [others EXCEPT ![i].logBuffer = st.logBuffer,
                                ![i].isRunning = st.isRunning,
                                ![i].timerActive = st.timerActive,
                                ![i].posts = st.posts,
                                ![i].logged = @ \o entries]
    /\ last' = [op |-> "other", flushCalls |-> 0, issued |-> 0, stopped |-> ~isRunning]

OtherLog(i, level, message, metadata) ==
    /\ LET entry == [ref |-> Allocated + 1,
                     obj |-> logEntry(OtherHandler(i), level, message, metadata)]
       IN OtherCommit(i, log(OtherHandler(i), entry), <<entry>>)
    /\ now' = now + 1
    /\ ~exited
    /\ UNCHANGED <<config, given, exited, shipper, timerActive, timerPeriod, posts, consoleErrors,
                   unhandled, logged, streak, streakBase, stale>>

OtherFlushCall(i) ==
    /\ OtherCommit(i, flush(OtherHandler(i)), <<>>)
    /\ ~exited
    /\ UNCHANGED <<config, given, exited, shipper, runtime, posts, consoleErrors, unhandled,
                   logged, streak, streakBase, stale>>

OtherTimerCallback(i) ==
    /\ others[i].timerActive
    /\ OtherCommit(i, timerCallback(OtherHandler(i)), <<>>)
    /\ ~exited
    /\ UNCHANGED <<config, given, exited, shipper, runtime, posts, consoleErrors, unhandled,
                   logged, streak, streakBase, stale>>

OtherStop(i) ==
    /\ OtherCommit(i, stop(OtherHandler(i)), <<>>)
    /\ ~exited
    /\ UNCHANGED <<config, given, exited, shipper, runtime, posts, consoleErrors, unhandled,
                   logged, streak, streakBase, stale>>

OtherPostSettle(i, j, outcome) ==
    /\ others[i].posts[j].promise = "pending"
    /\ LET st == resume([logBuffer |-> others[i].logBuffer,
                         consoleErrors |-> consoleErrors,
                         unhandled |-> unhandled],
                        others[i].posts[j].body.logs, outcome)
       IN /\ others' = [others EXCEPT ![i].logBuffer = st.logBuffer,
                                      ![i].posts[j].promise = Settled(outcome)]
          /\ consoleErrors' = st.consoleErrors
          /\ unhandled' = st.unhandled
    /\ last' = [op |-> "other", flushCalls |-> 0, issued |-> 0, stopped |-> ~isRunning]
    /\ ~exited
    /\ UNCHANGED <<config, given, exited, shipper, runtime, posts, logged, streak, streakBase, stale>>

NextInstances ==
    \/ NextOver(InstanceCalls, MaxInstanceLogs)
    \/ \E i \in DOMAIN others : \E c \in InstanceCalls :
          /\ Len(others[i].logged) < MaxInstanceLogs
          /\ OtherLog(i, c.level, c.message, c.metadata)
    \/ \E i \in DOMAIN others : OtherFlushCall(i)
    \/ \E i \in DOMAIN others : OtherTimerCallback(i)
    \/ \E i \in DOMAIN others : OtherStop(i)
    \/ \E i \in DOMAIN others : \E j \in DOMAIN others[i].posts : \E outcome \in Outcomes :
          OtherPostSettle(i, j, outcome)

SpecInstances == InitInstances /\ [][NextInstances]_vars

(***************************************************************************)
(* Properties.                                                             *)
(***************************************************************************)
\* the entries of request i
Payload(i) == posts[i].body.logs

\* the references held by a sequence of entries
Refs(entries) == {entries[j].ref : j \in DOMAIN entries}

\* how often the entry with reference ref occurs in a sequence of entries
Occurrences(ref, entries) == Cardinality({j \in DOMAIN entries : entries[j].ref = ref})

\* C1: batch-size trigger.  For batchSize = N >= 1, after exactly N calls of
\* log() made from an empty buffer with no flush in between (no timer expiry,
\* no flush(), no stop()), exactly one request has been issued since the
\* first of them, its payload is exactly those N entries and the buffer is
\* empty; after fewer than N such calls no request has been issued.
BatchSizeTrigger ==
    (batchSize >= 1 /\ streak # <<>>) =>
        IF Len(streak) < batchSize
        THEN Len(posts) = streakBase
        ELSE /\ Len(streak) = batchSize
             /\ Len(posts) = streakBase + 1
             /\ Payload(Len(posts)) = streak
             /\ logBuffer = <<>>

\* the N-th call of log() has just returned, for N >= 2
BatchSizeTriggerWitness ==
    /\ batchSize >= 2
    /\ Len(streak) = batchSize
    /\ last.op = "log"
    /\ last.issued = 1

\* C2: no loss across concurrent accumulation.  An entry logged after the
\* snapshots of requests 1..n were taken (so also while any of them is still
\* in flight) is in none of those requests; until the next flush it is in
\* the live buffer, once; from the next flush on it is in the payload of
\* request n+1, once, and neither in the buffer nor in any later payload.
NoLossAcrossAccumulation ==
    \A k \in DOMAIN logged :
        LET ref == logged[k].entry.ref
            n == logged[k].issued
        IN /\ \A i \in 1..n : ref \notin Refs(Payload(i))
           /\ IF Len(posts) = n
              THEN Occurrences(ref, logBuffer) = 1
              ELSE /\ Occurrences(ref, Payload(n + 1)) = 1
                   /\ ref \notin Refs(logBuffer)
                   /\ \A j \in (n + 2)..Len(posts) : ref \notin Refs(Payload(j))

\* request i is still in flight, an entry was logged after its snapshot and
\* the next flush has carried that entry
NoLossAcrossAccumulationWitness ==
    \E i \in DOMAIN posts : \E k \in DOMAIN logged :
        /\ posts[i].promise = "pending"
        /\ logged[k].issued = i
        /\ Len(posts) > i
        /\ logged[k].entry.ref \in Refs(Payload(i + 1))

\* stop() called with M entries pending, 1 <= M < batchSize, issues exactly
\* one request, whose payload is those M entries, and leaves the interval
\* cancelled
StopDrainsStep ==
    (last'.op = "stop" /\ Len(logBuffer) >= 1 /\ Len(logBuffer) < batchSize) =>
        /\ posts' = Append(posts, Request(Handler, logBuffer))
        /\ last'.issued = 1
        /\ logBuffer' = <<>>
        /\ ~timerActive'

\* once stop() has been called the interval is cancelled and no handler
\* that runs is the timer callback
NoTimerAfterStop ==
    /\ ~isRunning' => ~timerActive'
    /\ ~isRunning => last'.op # "timer"

\* C3 as stated: stop drains, the timer is cancelled, and after stop() a
\* request is only issued by a log() that brings the buffer to batchSize or
\* by an explicit flush().
StopDrainsAsStated ==
    [][/\ StopDrainsStep
       /\ NoTimerAfterStop
       /\ (~isRunning /\ Len(posts') > Len(posts)) =>
              \/ last'.op = "log" /\ Len(logBuffer) + 1 >= batchSize
              \/ last'.op = "flush"]_vars

\* C3, amended: stop drains, the timer is cancelled, and after stop() a
\* request is only issued by a log() that brings the buffer to batchSize, by
\* an explicit flush() or by the final flush of a further stop().
StopDrains ==
    [][/\ StopDrainsStep
       /\ NoTimerAfterStop
       /\ (~isRunning /\ Len(posts') > Len(posts)) =>
              \/ last'.op = "log" /\ Len(logBuffer) + 1 >= batchSize
              \/ last'.op = "flush"
              \/ last'.op = "stop"]_vars

\* stop() has just drained M pending entries, 1 <= M < batchSize
StopDrainsWitness ==
    /\ last.op = "stop"
    /\ last.issued = 1
    /\ Len(Payload(Len(posts))) >= 1
    /\ Len(Payload(Len(posts))) < batchSize
    /\ logBuffer = <<>>
    /\ ~timerActive

\* C4 as stated: after the POST of a flush has failed, log() still appends,
\* the entries of the failed batch are neither put back in the buffer nor
\* sent again, and a flush that succeeds after the failure carries only
\* entries that were logged after that POST failed.
FailureIsolationAsStated ==
    /\ \A i \in DOMAIN posts :
          posts[i].promise = "rejected" =>
              /\ Refs(Payload(i)) \cap Refs(logBuffer) = {}
              /\ \A j \in DOMAIN posts \ {i} : Refs(Payload(i)) \cap Refs(Payload(j)) = {}
    /\ \A k \in DOMAIN logged :
          \/ Occurrences(logged[k].entry.ref, logBuffer) = 1
          \/ \E j \in (logged[k].issued + 1)..Len(posts) :
                logged[k].entry.ref \in Refs(Payload(j))
    /\ \A j \in DOMAIN posts : posts[j].promise = "fulfilled" => posts[j].stale = 0

\* C4, amended: after the POST of a flush has failed, log() still appends,
\* the entries of the failed batch are neither put back in the buffer nor
\* sent again, and a later flush, successful or not, carries only entries
\* that were logged after the failed flush took its snapshot (among them the
\* entries logged while the failed POST was still in flight).
FailureIsolation ==
    /\ \A i \in DOMAIN posts :
          posts[i].promise = "rejected" =>
              /\ Refs(Payload(i)) \cap Refs(logBuffer) = {}
              /\ \A j \in DOMAIN posts \ {i} : Refs(Payload(i)) \cap Refs(Payload(j)) = {}
              /\ \A j \in (i + 1)..Len(posts) :
                    \A old \in Refs(Payload(i)) : \A new \in Refs(Payload(j)) : old < new
    /\ \A k \in DOMAIN logged :
          \/ Occurrences(logged[k].entry.ref, logBuffer) = 1
          \/ \E j \in (logged[k].issued + 1)..Len(posts) :
                logged[k].entry.ref \in Refs(Payload(j))

\* a batch failed and a later flush succeeded, carrying an entry logged
\* while the failed POST was in flight and an entry logged after it failed
FailureIsolationWitness ==
    \E i \in DOMAIN posts : \E j \in DOMAIN posts :
        /\ i < j
        /\ posts[i].promise = "rejected"
        /\ posts[j].promise = "fulfilled"
        /\ posts[j].stale >= 1
        /\ Len(Payload(j)) > posts[j].stale

\* C5: timer trigger.  While the shipper is active, an expiry of the interval
\* makes exactly one call of flush(), whatever the buffer holds: with K
\* entries buffered, 1 <= K < batchSize, it issues exactly one request, which
\* carries those K entries, and empties the buffer; with an empty buffer it
\* issues no request.
TimerTrigger ==
    [][last'.op = "timer" =>
          /\ isRunning
          /\ last'.flushCalls = 1
          /\ IF logBuffer = <<>>
             THEN posts' = posts /\ logBuffer' = <<>> /\ last'.issued = 0
             ELSE /\ posts' = Append(posts, Request(Handler, logBuffer))
                  /\ last'.issued = 1
                  /\ logBuffer' = <<>>]_vars

\* an expiry of the interval has just sent K entries, 1 <= K < batchSize
TimerTriggerWitness ==
    /\ isRunning
    /\ last.op = "timer"
    /\ last.issued = 1
    /\ Len(Payload(Len(posts))) >= 1
    /\ Len(Payload(Len(posts))) < batchSize
    /\ logBuffer = <<>>

\* the position, among all calls of log(), of the call that built the entry
CallIndex(entry) == CHOOSE k \in DOMAIN logged : logged[k].entry = entry

\* C6: order preservation.  In every payload the entries are in the order of
\* the calls of log() that built them.
OrderPreservation ==
    \A i \in DOMAIN posts :
        /\ \A a \in DOMAIN Payload(i) : \E k \in DOMAIN logged : logged[k].entry = Payload(i)[a]
        /\ \A a, b \in DOMAIN Payload(i) :
              a < b <=> CallIndex(Payload(i)[a]) < CallIndex(Payload(i)[b])

\* a payload of three entries has been sent
OrderPreservationWitness ==
    \E i \in DOMAIN posts : Len(Payload(i)) >= 3

\* C7: buffer bound.  For batchSize >= 1 the buffer never holds more than
\* batchSize entries between two handlers, before stop() and after it, and a
\* log() that reaches the threshold has drained the buffer when it returns.
BufferBound ==
    batchSize >= 1 =>
        /\ Len(logBuffer) <= batchSize
        /\ last.op = "log" => Len(logBuffer) < batchSize
        /\ (last.op = "log" /\ last.flushCalls = 1) => logBuffer = <<>>

\* after stop(), a log() has reached the threshold of a batch of two or more
\* and has drained the buffer
BufferBoundWitness ==
    /\ batchSize >= 2
    /\ ~isRunning
    /\ last.op = "log"
    /\ last.issued = 1
    /\ Len(Payload(Len(posts))) = batchSize
    /\ logBuffer = <<>>

\* the four fields log() sets itself
ReservedKeys == {"timestamp", "level", "service", "message"}

\* the levels of LogCalls and EntryLevels in upper case
InUpperCase(level) ==
    CASE level = <<"e", "r", "r", "o", "r">> -> <<"E", "R", "R", "O", "R">>
      [] level = <<"i", "n", "f", "o">> -> <<"I", "N", "F", "O">>
      [] level = <<"W", "a", "r", "n">> -> <<"W", "A", "R", "N">>
      [] level = <<"D", "E", "B", "U", "G">> -> <<"D", "E", "B", "U", "G">>

\* every entry of the buffer and of the payloads, in one sequence
RECURSIVE Sent(_)
Sent(n) == IF n = 0 THEN <<>> ELSE Sent(n - 1) \o Payload(n)

AllEntries == Sent(Len(posts)) \o logBuffer

\* C8: entry construction.  log(level, message, metadata) appends exactly one
\* entry; its keys are timestamp, level, service, message and the keys of
\* metadata; every key of metadata has the value metadata gives it; each of
\* the four reserved keys that metadata does not hold has the generated
\* timestamp, the level in upper case, the serviceName of the shipper and
\* the message.  log("error", "Database failed", {error: "timeout", userId:
\* "42"}) gives {timestamp, level: "ERROR", service: serviceName, message:
\* "Database failed", error: "timeout", userId: "42"}.
EntryConstruction ==
    LET all == AllEntries
    IN
    /\ Len(all) = Len(logged)
    /\ \A k \in DOMAIN logged :
          LET call == logged[k].call
              obj == logged[k].entry.obj
          IN /\ Occurrences(logged[k].entry.ref, all) = 1
             /\ \E j \in DOMAIN all : all[j] = logged[k].entry
             /\ DOMAIN obj = ReservedKeys \cup DOMAIN call.metadata
             /\ \A key \in DOMAIN call.metadata : obj[key] = call.metadata[key]
             /\ "timestamp" \notin DOMAIN call.metadata =>
                    obj.timestamp = toISOString(logged[k].at)
             /\ "level" \notin DOMAIN call.metadata =>
                    obj.level = InUpperCase(call.level)
             /\ "service" \notin DOMAIN call.metadata => obj.service = serviceName
             /\ "message" \notin DOMAIN call.metadata => obj.message = call.message
             /\ (/\ call.level = <<"e", "r", "r", "o", "r">>
                 /\ call.message = "Database failed"
                 /\ call.metadata = [error |-> "timeout", userId |-> "42"]) =>
                    obj = [timestamp |-> toISOString(logged[k].at),
                           level |-> <<"E", "R", "R", "O", "R">>,
                           service |-> serviceName,
                           message |-> "Database failed",
                           error |-> "timeout",
                           userId |-> "42"]

\* log("error", "Database failed", {error: "timeout", userId: "42"}) has
\* been called and its entry is in the buffer
EntryConstructionWitness ==
    \E k \in DOMAIN logged :
        /\ logged[k].call = [level |-> <<"e", "r", "r", "o", "r">>,
                             message |-> "Database failed",
                             metadata |-> [error |-> "timeout", userId |-> "42"]]
        /\ logged[k].entry \in {logBuffer[j] : j \in DOMAIN logBuffer}
        /\ logged[k].entry.obj.level = <<"E", "R", "R", "O", "R">>

\* C9: errors are local to flush().  However a POST settles (2xx, another
\* status, no response), no promise of flush() is rejected, so nothing is
\* raised to the caller of log(), of stop() or to the timer callback, and the
\* settlement leaves the buffer, the timer and the running flag as they
\* were: after a failed POST the shipper is in the state it is in after a
\* successful one.
ErrorsLocalToFlush ==
    /\ unhandled = 0
    /\ [][/\ unhandled' = 0
          /\ last'.op = "settle" =>
                 /\ logBuffer' = logBuffer
                 /\ flushTimer' = flushTimer
                 /\ timerActive' = timerActive
                 /\ timerPeriod' = timerPeriod
                 /\ isRunning' = isRunning]_vars

\* a POST has just failed while entries were waiting in the buffer
ErrorsLocalToFlushWitness ==
    /\ last.op = "settle"
    /\ consoleErrors >= 1
    /\ \E i \in DOMAIN posts : posts[i].promise = "rejected"
    /\ logBuffer # <<>>
    /\ isRunning

\* C10: lifecycle.  The shipper is active (isRunning, interval scheduled)
\* from construction until the first stop() and stopped (not isRunning,
\* interval cancelled) ever after; only stop() makes the transition, and
\* once stopped the flag never becomes true again and the interval is never
\* scheduled again.
Lifecycle ==
    /\ (isRunning = TRUE /\ timerActive = TRUE /\ flushTimer # "null")
    /\ [][/\ last'.op = "stop" => (~isRunning' /\ ~timerActive')
          /\ last'.op # "stop" =>
                 /\ isRunning' = isRunning
                 /\ timerActive' = timerActive
                 /\ flushTimer' = flushTimer
          /\ ~isRunning => (~isRunning' /\ ~timerActive')
          /\ isRunning' <=> timerActive']_vars

\* the shipper was stopped and handlers have run since
LifecycleWitness ==
    /\ ~isRunning
    /\ ~timerActive
    /\ last.op = "log"
    /\ \E i \in DOMAIN posts : posts[i].promise # "pending"

\* C11: stop() neither cancels nor awaits.  Every request that is in flight
\* when stop() is called is in flight, unchanged, when stop() returns; the
\* request of the final flush of stop() is in flight when stop() returns and
\* stop() handles no outcome itself; after stop() a request that is in flight
\* settles on its own, as before: the settlement changes the promise of that
\* request and of no other.
StopFireAndForget ==
    [][/\ last'.op = "stop" =>
              /\ \A i \in DOMAIN posts : posts'[i] = posts[i]
              /\ Len(posts') = Len(posts) + last'.issued
              /\ \A j \in (Len(posts) + 1)..Len(posts') : posts'[j].promise = "pending"
              /\ consoleErrors' = consoleErrors
       /\ (~isRunning /\ last'.op = "settle") =>
              \E i \in DOMAIN posts :
                  /\ posts[i].promise = "pending"
                  /\ posts'[i].promise \in {"fulfilled", "rejected"}
                  /\ \A j \in DOMAIN posts \ {i} : posts'[j] = posts[j]
                  /\ Len(posts') = Len(posts)]_vars

\* stop() has just returned: an earlier request and the request of its final
\* flush are both in flight
StopFireAndForgetWitness ==
    /\ last.op = "stop"
    /\ last.issued = 1
    /\ Len(posts) >= 2
    /\ \A i \in DOMAIN posts : posts[i].promise = "pending"

\* a call of log() after stop() is accepted: its entry is appended, and when
\* that brings the buffer to batchSize one call of flush() sends the buffer
LogAfterStopStep ==
    (~isRunning /\ last'.op = "log") =>
        LET entry == logged'[Len(logged')].entry
        IN /\ Len(logged') = Len(logged) + 1
           /\ IF Len(logBuffer) + 1 >= batchSize
              THEN /\ last'.flushCalls = 1
                   /\ posts' = Append(posts, Request(Handler, Append(logBuffer, entry)))
                   /\ logBuffer' = <<>>
              ELSE /\ last'.flushCalls = 0
                   /\ posts' = posts
                   /\ logBuffer' = Append(logBuffer, entry)

\* the handler that ran last was a call of log() made after stop() that
\* brought the buffer to batchSize and flushed it
FlushedAfterStop == ~isRunning /\ last.op = "log" /\ last.issued = 1

StartsWith(buffer, kept) ==
    /\ Len(buffer) >= Len(kept)
    /\ \A j \in DOMAIN kept : buffer[j] = kept[j]

\* after stop(), a handler leaves the entries of the buffer where they are
\* and sends none of them, unless it is one of drains: then it sends them
\* all, in one request
StrandedStep(drains) ==
    (~isRunning /\ logBuffer # <<>>) =>
        /\ last'.op # "timer"
        /\ \/ /\ StartsWith(logBuffer', logBuffer)
              /\ Len(posts') = Len(posts)
           \/ /\ last'.op \in drains
              /\ last'.op = "log" => Len(logBuffer) + 1 >= batchSize
              /\ Len(posts') = Len(posts) + 1
              /\ StartsWith(posts'[Len(posts')].body.logs, logBuffer)
              /\ logBuffer' = <<>>

\* C13 as stated: the entries logged after stop() that do not bring the
\* buffer to batchSize stay in the buffer, no timer sends them, and only an
\* explicit flush() or a log() that reaches batchSize drains them.
StrandedAfterStopAsStated == [][StrandedStep({"flush", "log"})]_vars

\* C13, amended: the entries logged after stop() that do not bring the
\* buffer to batchSize stay in the buffer, no timer sends them, and only an
\* explicit flush(), a log() that reaches batchSize or a further stop()
\* drains them.
StrandedAfterStop == [][StrandedStep({"flush", "log", "stop"})]_vars

\* entries logged after stop() are waiting in the buffer, below batchSize,
\* and a handler that is none of the three has run since
StrandedAfterStopWitness ==
    /\ ~isRunning
    /\ Len(logBuffer) >= 2
    /\ Len(logBuffer) < batchSize
    /\ last.op = "settle"

\* C14: the service label is fixed per instance.  Every entry log() has
\* built, in the buffer and in every payload, has the serviceName of the
\* shipper as its service, whatever the metadata of the call.
ServiceLabelFixed ==
    LET all == AllEntries
    IN \A j \in DOMAIN all : all[j].obj.service = serviceName

\* the value log() generates for a reserved key, for the k-th call
Generated(k, key) ==
    CASE key = "timestamp" -> toISOString(logged[k].at)
      [] key = "level" -> InUpperCase(logged[k].call.level)
      [] key = "service" -> serviceName
      [] key = "message" -> logged[k].call.message

\* C15: metadata collision.  When the metadata of a call of log() holds a
\* key named timestamp, level, service or message, the entry holds the value
\* of the metadata for that key; the call is accepted as any other: the
\* entry is stored once and the only lines on console.error are those of
\* failed requests.
MetadataCollision ==
    LET all == AllEntries
    IN /\ \A k \in DOMAIN logged :
             LET metadata == logged[k].call.metadata
                 obj == logged[k].entry.obj
             IN /\ \A key \in ReservedKeys \cap DOMAIN metadata : obj[key] = metadata[key]
                /\ Occurrences(logged[k].entry.ref, all) = 1
       /\ consoleErrors = Cardinality({i \in DOMAIN posts : posts[i].promise = "rejected"})

\* an entry whose metadata held level and message is stored with those
\* values, the level as given, in place of the generated ones
MetadataCollisionWitness ==
    \E k \in DOMAIN logged :
        /\ {"level", "message"} \subseteq DOMAIN logged[k].call.metadata
        /\ \A key \in {"level", "message"} :
              /\ logged[k].entry.obj[key] = logged[k].call.metadata[key]
              /\ logged[k].entry.obj[key] # Generated(k, key)
        /\ logged[k].entry \in {logBuffer[j] : j \in DOMAIN logBuffer}

\* the requests that carry the batch of request i again
Resends(i) == {j \in DOMAIN posts : j > i /\ Payload(j) = Payload(i)}

\* C16: retry configuration.  A shipper constructed with retryAttempts = k
\* and retryDelay = d sends a batch whose POST failed again, up to k times,
\* before it gives the batch up.  flush() returns when its request has
\* settled, so once the first request of a batch is rejected and flush()
\* has returned, either one of the batch's resends has succeeded or there
\* have been k of them.
RetryConfiguration ==
    \A i \in DOMAIN posts :
        (posts[i].promise = "rejected" /\ \A h \in 1..(i - 1) : i \notin Resends(h)) =>
            \/ \E j \in Resends(i) : posts[j].promise = "fulfilled"
            \/ Cardinality(Resends(i)) = GuideOptions.retryAttempts

\* C17: wire protocol.  A handler that calls flush() on a buffer that holds
\* entries issues exactly one POST, to {apiUrl}/api/ingest_log, with the body
\* {logs: snapshot}, the snapshot being every entry buffered at that moment,
\* in order; a flush() on an empty buffer and a handler that does not call
\* flush() issue none; so no request has an empty logs array and none goes
\* to another path.
WireProtocol ==
    [][LET snapshot == IF last'.op = "log"
                       THEN Append(logBuffer, logged'[Len(logged')].entry)
                       ELSE logBuffer
       IN /\ \A i \in DOMAIN posts :
                /\ posts'[i].url = posts[i].url
                /\ posts'[i].body = posts[i].body
          /\ IF last'.flushCalls >= 1 /\ snapshot # <<>>
             THEN /\ last'.flushCalls = 1
                  /\ Len(posts') = Len(posts) + 1
                  /\ posts'[Len(posts')].url = apiUrl \o "/api/ingest_log"
                  /\ posts'[Len(posts')].body = [logs |-> snapshot]
                  /\ posts'[Len(posts')].url # apiUrl \o "/api/ingest_single_log"
             ELSE Len(posts') = Len(posts)]_vars

\* an explicit flush() has just sent two or more entries in one POST to
\* http://localhost:8000/api/ingest_log
WireProtocolWitness ==
    /\ last.op = "flush"
    /\ last.issued = 1
    /\ posts[Len(posts)].url = "http://localhost:8000/api/ingest_log"
    /\ DOMAIN posts[Len(posts)].body = {"logs"}
    /\ Len(Payload(Len(posts))) >= 2
    /\ logBuffer = <<>>

\* the requests in flight
InFlight == {i \in DOMAIN posts : posts[i].promise = "pending"}

\* C18: no delivery order across flushes.  The shipper does nothing to
\* serialize its requests: a flush() of a buffer that holds entries issues
\* its request while earlier requests are in flight and leaves them in
\* flight; every request in flight can settle next, with any outcome,
\* whatever the requests issued before it are doing; and a request that
\* settles leaves the others as they are.  So two batches are in flight
\* together and the later can complete first.
NoDeliveryOrder ==
    /\ [](\A i \in InFlight : \A outcome \in Outcomes : ENABLED PostSettle(i, outcome))
    /\ [][/\ (last'.flushCalls >= 1 /\ last'.op # "log" /\ logBuffer # <<>>) =>
                 /\ Len(posts') = Len(posts) + 1
                 /\ \A i \in InFlight : posts'[i].promise = "pending"
                 /\ posts'[Len(posts')].promise = "pending"
          /\ last'.op = "settle" =>
                 \E j \in InFlight :
                     /\ posts'[j].promise # "pending"
                     /\ \A i \in InFlight \ {j} : posts'[i].promise = "pending"]_vars

\* two batches were in flight together and the later one has completed
\* while the earlier one is still in flight
NoDeliveryOrderWitness ==
    \E i \in DOMAIN posts : \E j \in DOMAIN posts :
        /\ i < j
        /\ posts[i].promise = "pending"
        /\ posts[j].promise = "fulfilled"
        /\ last.op = "settle"

\* C19: log() does not block and applies no backpressure.  log() can be
\* called in every state, whatever the number of requests in flight; the
\* call stores its entry, settles no request and handles no outcome; when
\* the entry brings the buffer to batchSize the flush is issued at once,
\* also while earlier requests are in flight, and its request is still in
\* flight when log() returns.
LogNonBlocking ==
    /\ [](\A c \in LogCalls : ENABLED Log(c.level, c.message, c.metadata))
    /\ [][last'.op = "log" =>
             LET entry == logged'[Len(logged')].entry
             IN /\ Len(logged') = Len(logged) + 1
                /\ \A i \in DOMAIN posts : posts'[i] = posts[i]
                /\ consoleErrors' = consoleErrors
                /\ IF Len(logBuffer) + 1 >= batchSize
                   THEN /\ Len(posts') = Len(posts) + 1
                        /\ posts'[Len(posts')].promise = "pending"
                        /\ posts'[Len(posts')].body.logs = Append(logBuffer, entry)
                        /\ InFlight' = InFlight \cup {Len(posts')}
                   ELSE /\ posts' = posts
                        /\ logBuffer' = Append(logBuffer, entry)]_vars

\* log() has just returned from a size-triggered flush issued while an
\* earlier request was in flight: both requests are in flight
LogNonBlockingWitness ==
    /\ last.op = "log"
    /\ last.issued = 1
    /\ Len(posts) \in InFlight
    /\ Cardinality(InFlight) >= 2
    /\ batchSize >= 1

\* the references of the entries in the payloads of a sequence of requests
RECURSIVE SentRefs(_)
SentRefs(requests) ==
    IF requests = <<>>
    THEN {}
    ELSE Refs(requests[1].body.logs) \cup SentRefs(Tail(requests))

\* C20: instance isolation.  With several shippers in one process, a handler
\* of one shipper (log, flush, timer callback, stop, settlement of one of its
\* requests) leaves the buffer, the timer handle, the interval, the running
\* flag and the requests of every other shipper as they were; an entry is
\* buffered or sent only by the shipper it was logged on, so no entry logged
\* on one shipper is in the buffer or in a payload of another.
InstanceIsolation ==
    /\ [](\A i \in DOMAIN others :
             LET mine == Refs([k \in DOMAIN logged |-> logged[k].entry])
                 theirs == Refs(others[i].logged)
             IN /\ mine \cap theirs = {}
                /\ SentRefs(posts) \cup Refs(logBuffer) \subseteq mine
                /\ SentRefs(others[i].posts) \cup Refs(others[i].logBuffer) \subseteq theirs)
    /\ [][/\ last'.op = "other" =>
                 /\ logBuffer' = logBuffer
                 /\ flushTimer' = flushTimer
                 /\ timerActive' = timerActive
                 /\ isRunning' = isRunning
                 /\ posts' = posts
                 /\ \E i \in DOMAIN others :
                       \A h \in DOMAIN others \ {i} : others'[h] = others[h]
          /\ last'.op # "other" => others' = others]_vars

\* the first shipper has just been stopped, which sent its entry; the
\* other shipper is running, with its interval scheduled and the entry
\* logged on it in its buffer
InstanceIsolationWitness ==
    /\ last.op = "stop"
    /\ ~isRunning
    /\ ~timerActive
    /\ Len(posts) >= 1
    /\ \E i \in DOMAIN others :
          /\ others[i].isRunning
          /\ others[i].timerActive
          /\ others[i].logBuffer # <<>>
          /\ others[i].posts = <<>>

\* C21: an empty flush is a no-op.  A call of flush() made while the buffer
\* is empty, by the timer callback, by an explicit flush() or as the final
\* flush of stop(), issues no request and leaves the buffer empty, and the
\* timer and the running flag as they were when flush() was called: as
\* before the handler for the timer and flush(), stopped and cancelled for
\* stop().
EmptyFlushNoOp ==
    [][(last'.op \in {"timer", "flush", "stop"} /\ logBuffer = <<>>) =>
          /\ last'.flushCalls = 1
          /\ last'.issued = 0
          /\ posts' = posts
          /\ logBuffer' = <<>>
          /\ flushTimer' = flushTimer
          /\ timerPeriod' = timerPeriod
          /\ IF last'.op = "stop"
             THEN ~isRunning' /\ ~timerActive'
             ELSE isRunning' = isRunning /\ timerActive' = timerActive]_vars

\* the timer has just expired on an empty buffer, after a batch was sent
EmptyFlushNoOpWitness ==
    /\ last.op = "timer"
    /\ last.flushCalls = 1
    /\ last.issued = 0
    /\ logBuffer = <<>>
    /\ Len(posts) >= 1
    /\ isRunning

\* C22: initial state.  Right after construction the buffer is empty, the
\* shipper is running, the interval is scheduled with period flushInterval,
\* its handle is stored, and no request has been issued.
InitialState ==
    last.op = "constructor" =>
        /\ logBuffer = <<>>
        /\ isRunning
        /\ flushTimer # "null"
        /\ timerActive
        /\ timerPeriod = flushInterval
        /\ posts = <<>>
        /\ logged = <<>>

\* a shipper constructed with flushInterval 3000, before any handler has run
InitialStateWitness ==
    /\ last.op = "constructor"
    /\ flushInterval = 3000
    /\ timerPeriod = 3000
    /\ timerActive

\* the level each convenience method stands for, and the level of its entries
LevelName(method) ==
    CASE method = "info" -> <<"i", "n", "f", "o">>
      [] method = "warn" -> <<"w", "a", "r", "n">>
      [] method = "error" -> <<"e", "r", "r", "o", "r">>
      [] method = "debug" -> <<"d", "e", "b", "u", "g">>

LevelLabel(method) ==
    CASE method = "info" -> <<"I", "N", "F", "O">>
      [] method = "warn" -> <<"W", "A", "R", "N">>
      [] method = "error" -> <<"E", "R", "R", "O", "R">>
      [] method = "debug" -> <<"D", "E", "B", "U", "G">>

\* C23: the convenience methods are passthroughs.  In every state and for
\* every message and metadata, a call of info, warn, error or debug leaves
\* the buffer and the requests that log("info" / "warn" / "error" / "debug",
\* message, metadata) leaves when called in that state, and its entry has
\* that level in upper case.
ConveniencePassthrough ==
    [][(Len(logged') = Len(logged) + 1
        /\ logged'[Len(logged')].via \in {"info", "warn", "error", "debug"}) =>
          LET made == logged'[Len(logged')]
              st == log(Handler, NewEntry(LevelName(made.via), made.args[1], made.args[2]))
          IN /\ logBuffer' = st.logBuffer
             /\ posts' = st.posts
             /\ isRunning' = st.isRunning
             /\ timerActive' = st.timerActive
             /\ "level" \notin DOMAIN made.args[2] =>
                    made.entry.obj.level = LevelLabel(made.via)]_vars

\* warn() was called with metadata and its entry, at level WARN, has been
\* sent by the size trigger
ConveniencePassthroughWitness ==
    \E k \in DOMAIN logged :
        /\ logged[k].via = "warn"
        /\ logged[k].args[2] # NoMetadata
        /\ logged[k].entry.obj.level = <<"W", "A", "R", "N">>
        /\ Len(posts) > logged[k].issued
        /\ logged[k].entry \in {Payload(logged[k].issued + 1)[j] :
                                     j \in DOMAIN Payload(logged[k].issued + 1)}
        /\ last.op = "log"

\* the three correlation fields of logServiceRequest()
CorrelationKeys == {"requesting_service", "target_service", "request_id"}

\* C24: logServiceRequest(requestingService, targetService, requestId,
\* additionalData) has the effect of log("info", "Service request received",
\* {requesting_service, target_service, request_id, ...additionalData}): one
\* INFO entry with that message is appended, it carries the three
\* correlation fields and the keys of additionalData, a key of
\* additionalData named as a correlation field takes precedence over the
\* argument, and the call counts toward the size trigger as a call of log().
ServiceRequestEntry ==
    [][(Len(logged') = Len(logged) + 1
        /\ logged'[Len(logged')].via = "logServiceRequest") =>
          LET made == logged'[Len(logged')]
              additionalData == made.args[4]
              positional == [requesting_service |-> made.args[1],
                             target_service |-> made.args[2],
                             request_id |-> made.args[3]]
              metadata == [key \in CorrelationKeys \cup DOMAIN additionalData |->
                              IF key \in DOMAIN additionalData
                              THEN additionalData[key]
                              ELSE positional[key]]
              st == log(Handler, NewEntry(<<"i", "n", "f", "o">>,
                                          "Service request received", metadata))
          IN /\ logBuffer' = st.logBuffer
             /\ posts' = st.posts
             /\ made.entry.obj.level = <<"I", "N", "F", "O">>
             /\ made.entry.obj.message = "Service request received"
             /\ DOMAIN made.entry.obj = ReservedKeys \cup DOMAIN metadata
             /\ \A key \in DOMAIN metadata : made.entry.obj[key] = metadata[key]
             /\ IF Len(logBuffer) + 1 >= batchSize
                THEN /\ Len(posts') = Len(posts) + 1
                     /\ posts'[Len(posts')].body.logs = Append(logBuffer, made.entry)
                     /\ logBuffer' = <<>>
                ELSE /\ posts' = posts
                     /\ logBuffer' = Append(logBuffer, made.entry)]_vars

\* logServiceRequest("frontend", "Ereadz1", "req-1", {request_id: ...,
\* method: "GET"}) has been called; its entry carries the request_id of
\* additionalData and has been sent by the size trigger
ServiceRequestEntryWitness ==
    \E k \in DOMAIN logged :
        /\ logged[k].via = "logServiceRequest"
        /\ logged[k].args[1] = "frontend"
        /\ logged[k].entry.obj.requesting_service = "frontend"
        /\ logged[k].entry.obj.target_service = "Ereadz1"
        /\ logged[k].entry.obj.request_id = "from-additional-data"
        /\ logged[k].entry.obj.method = "GET"
        /\ Len(posts) > logged[k].issued
        /\ logBuffer = <<>>
        /\ last.op = "log"

\* C25: conservation.  In every reachable state, under any interleaving of
\* log(), timer callbacks, flush(), stop() and settlements, the payloads of
\* all requests issued so far, concatenated in issue order and followed by
\* the buffer, are the entries ever logged, in the order of the calls of
\* log(); so no entry is in two payloads, none is in a payload and in the
\* buffer, and none is lost before a request carries it.
Conservation ==
    /\ Sent(Len(posts)) \o logBuffer = [k \in DOMAIN logged |-> logged[k].entry]
    /\ \A k \in DOMAIN logged :
          /\ Cardinality({i \in DOMAIN posts : logged[k].entry.ref \in Refs(Payload(i))})
                + (IF logged[k].entry.ref \in Refs(logBuffer) THEN 1 ELSE 0) = 1
          /\ \A j \in DOMAIN logged : j # k => logged[j].entry.ref # logged[k].entry.ref

\* a size-triggered request and a later request of the timer, of flush() or
\* of stop() have both been issued, one of the two has settled, and three
\* entries were logged in all
ConservationWitness ==
    \E i, j \in DOMAIN posts :
        /\ i < j
        /\ Len(Payload(i)) = batchSize
        /\ Len(Payload(j)) < batchSize
        /\ posts[i].promise # "pending"
        /\ posts[j].promise = "pending"
        /\ Len(logged) = 3

\* C26: eventual shipping while active.  With the interval firing again and
\* again (weak fairness of the timer callback), every entry that log() has
\* appended to a running shipper is eventually in the payload of an issued
\* request, also when the buffer never reaches batchSize and stop() is
\* never called.
EventualShipping ==
    \A k \in 1..MaxLiveLogs :
        (Len(logged) >= k /\ isRunning)
            ~> (Len(logged) >= k /\ logged[k].entry.ref \in SentRefs(posts))

\* a running shipper with the default batchSize, never full and never
\* stopped, has sent every entry logged, the last ones from the callback
EventualShippingWitness ==
    /\ batchSize = DefaultBatchSize
    /\ isRunning
    /\ Len(logged) = MaxLiveLogs
    /\ last.op = "timer"
    /\ last.issued = 1
    /\ \A k \in DOMAIN logged : logged[k].entry.ref \in SentRefs(posts)

\* the fields of the shipper, its interval and its requests in a handler state
Effect(st) ==
    [logBuffer |-> st.logBuffer, flushTimer |-> st.flushTimer,
     isRunning |-> st.isRunning, timerActive |-> st.timerActive, posts |-> st.posts]

\* a stopped shipper with nothing buffered and no interval scheduled
Drained == ~isRunning /\ ~timerActive /\ logBuffer = <<>>

\* C28: stop() is idempotent.  In every reachable state stop(); stop() leaves
\* the buffer, the timer, the flag and the requests that a single stop()
\* leaves.  A stop() leaves the shipper drained; while log() is not called
\* every handler leaves it drained, and a further stop() issues no request
\* and leaves buffer, timer handle, interval and flag as the first left them.
StopIdempotent ==
    /\ [](Effect(stop(stop(Handler))) = Effect(stop(Handler)))
    /\ [][(last'.op = "stop" => Drained')
          /\ ((Drained /\ Len(logged') = Len(logged)) => Drained')
          /\ ((last'.op = "stop" /\ last'.stopped /\ Drained) =>
                /\ last'.issued = 0
                /\ posts' = posts
                /\ logBuffer' = logBuffer
                /\ flushTimer' = flushTimer
                /\ timerActive' = timerActive
                /\ isRunning' = isRunning)]_vars

\* the first stop() sent the entry that was buffered, its request failed, and
\* stop() has run again on the stopped shipper
StopIdempotentWitness ==
    /\ last.op = "stop"
    /\ last.stopped
    /\ last.issued = 0
    /\ Len(logged) = 1
    /\ Len(posts) = 1
    /\ posts[1].promise = "rejected"
    /\ Drained

\* C27: graceful shutdown of ereadz_service.  On SIGINT or SIGTERM the
\* handler logs a shutdown entry, calls logger.stop() and then
\* process.exit(0); when the process exits the buffer is empty, the shipper
\* is stopped and its interval cancelled, and every entry logged so far, the
\* shutdown entry included, is in the payload of exactly one issued request.
GracefulShutdown ==
    exited =>
        /\ logBuffer = <<>>
        /\ ~isRunning
        /\ ~timerActive
        /\ logged # <<>>
        /\ logged[Len(logged)].call.message \in
              {"Server shutting down gracefully", "Server received SIGTERM, shutting down"}
        /\ logged[Len(logged)].entry.obj.level = <<"I", "N", "F", "O">>
        /\ logged[Len(logged)].entry.ref \in Refs(Payload(Len(posts)))
        /\ \A k \in DOMAIN logged :
              Cardinality({i \in DOMAIN posts : logged[k].entry.ref \in Refs(Payload(i))}) = 1

\* the service was signalled with four entries buffered: the shutdown entry
\* filled the batch, log() sent it, stop() found the buffer empty, and the
\* process exited with that request in flight
GracefulShutdownWitness ==
    /\ exited
    /\ last.op = "signal"
    /\ last.flushCalls = 2
    /\ last.issued = 1
    /\ Len(Payload(Len(posts))) = batchSize
    /\ posts[Len(posts)].promise = "pending"

\* the value a field takes from the options: the one given when it is
\* truthy, else the default
Configured(options, key, falsy, dflt) ==
    IF key \in DOMAIN options
    THEN IF options[key] = falsy THEN dflt ELSE options[key]
    ELSE dflt

\* C29: configuration defaults.  Each of apiUrl, serviceName, batchSize and
\* flushInterval holds the value given at construction when that value is
\* truthy and otherwise its default (http://localhost:8000, unknown_service,
\* 10, 5000); a batchSize or flushInterval given as 0 is replaced by 10 or
\* 5000, so batchSize is never 0; no handler changes any of the four.
ConfigurationDefaults ==
    /\ [](/\ apiUrl = Configured(given, "apiUrl", "", "http://localhost:8000")
          /\ serviceName = Configured(given, "serviceName", "", "unknown_service")
          /\ batchSize = Configured(given, "batchSize", 0, 10)
          /\ flushInterval = Configured(given, "flushInterval", 0, 5000)
          /\ batchSize # 0
          /\ flushInterval # 0)
    /\ [][/\ apiUrl' = apiUrl
          /\ serviceName' = serviceName
          /\ batchSize' = batchSize
          /\ flushInterval' = flushInterval]_vars

\* a shipper given batchSize 0, flushInterval 0, an empty serviceName and an
\* apiUrl has the defaults but for the apiUrl, after two calls of log() and
\* a stop()
ConfigurationDefaultsWitness ==
    /\ "batchSize" \in DOMAIN given /\ given.batchSize = 0
    /\ "flushInterval" \in DOMAIN given /\ given.flushInterval = 0
    /\ "serviceName" \in DOMAIN given /\ given.serviceName = ""
    /\ "apiUrl" \in DOMAIN given /\ given.apiUrl = "http://appvital:8000"
    /\ batchSize = 10
    /\ flushInterval = 5000
    /\ serviceName = "unknown_service"
    /\ apiUrl = "http://appvital:8000"
    /\ Len(logged) = 2
    /\ last.op = "stop"

====
